---- MODULE Spec2Model ----
(***************************************************************************)
(* A model of cwc's root command: the construction of the include/exclude  *)
(* path matchers (cmd: gatherContext), the file gatherer and tree renderer *)
(* (pkg/filetree), the path matchers (pkg/pathmatcher), the interactive    *)
(* chat that consumes their output (cmd: interactiveChat), the dispatch of *)
(* the root command and its piped mode (cmd: RunE, nonInteractive) and the *)
(* stored configuration (pkg/config).                                      *)
(*                                                                         *)
(* Go strings are modelled as sequences of tokens (mostly one character    *)
(* each), so that concatenation, suffixes, substrings and regular          *)
(* expression matching are computed and not assumed.                       *)
(***************************************************************************)
EXTENDS Integers, Sequences, FiniteSets, TLC

VARIABLES
    opts,       \* chatOptions: the flags of the invocation (and the prompt argument)
    env,        \* the world outside the process: git, unreadable paths
    pc,         \* position of the root command's RunE / interactiveChat
    gather,     \* what gatherContext did and returned
    printed,    \* ui.PrintMessage calls so far, in order
    fileTree,   \* interactiveChat's local fileTree
    messages,   \* interactiveChat's local messages
    requests,   \* completion requests issued so far (the Messages of each)
    stream,     \* the completion stream of the current request
    messageStr, \* interactiveChat's local messageStr
    retErr,     \* the error interactiveChat returned ("" while running or nil)
    piped,      \* isPiped(os.Stdin): stdin is not a terminal
    store,      \* pkg/config: the config file, the keyring, the global Cfg
    calls,      \* which of the command's collaborators have been called so far
    entered,    \* the lines ui.ReadUserInput has returned, in order
    regather    \* what a second GatherFiles call with the same options returned

vars == <<opts, env, pc, gather, printed, fileTree, messages, requests, stream,
          messageStr, retErr, piped, store, calls, entered, regather>>

-----------------------------------------------------------------------------
(* Bounds of the model *)

\* the longest --paths list tried
MaxScopes == 2
\* how many filesystem entries may be unreadable at once
MaxFailures == 1
\* how many answers the chat loop is followed for
MaxTurns == 2
\* how many deltas one response stream delivers at most
MaxDeltas == 2

-----------------------------------------------------------------------------
(* Strings *)

Range(s) == {s[i] : i \in 1..Len(s)}

RECURSIVE Flatten(_)
\* the concatenation of a sequence of strings
Flatten(ss) == IF ss = <<>> THEN <<>> ELSE Head(ss) \o Flatten(Tail(ss))

\* sub occurs in s as a contiguous substring
IsSubstring(sub, s) ==
    \E i \in 0..(Len(s) - Len(sub)) :
        \A j \in 1..Len(sub) : s[i + j] = sub[j]

HasSuffix(s, suf) ==
    /\ Len(suf) <= Len(s)
    /\ \A j \in 1..Len(suf) : s[Len(s) - Len(suf) + j] = suf[j]

RECURSIVE JoinSlash(_)
\* path segments joined with "/" (the slash-separated form of a path)
JoinSlash(segs) ==
    IF segs = <<>> THEN <<>>
    ELSE IF Len(segs) = 1 THEN segs[1]
    ELSE segs[1] \o <<"/">> \o JoinSlash(Tail(segs))

\* the position of the last "." of a name, 0 if none
LastDot(name) ==
    LET dots == {i \in 1..Len(name) : name[i] = "."}
    IN  IF dots = {} THEN 0 ELSE CHOOSE i \in dots : \A j \in dots : j <= i

-----------------------------------------------------------------------------
(* The file system the command runs in *)

S_git    == <<".", "g", "i", "t">>
S_config == <<"c", "o", "n", "f", "i", "g">>
S_cmd    == <<"c", "m", "d">>
S_pkg    == <<"p", "k", "g">>
S_main   == <<"m", "a", "i", "n", ".", "g", "o">>
S_notes  == <<"n", "o", "t", "e", "s">>
S_docs   == <<"d", "o", "c", "s">>
S_lib    == <<"l", "i", "b", ".", "g", "o">>
S_vendor == <<"v", "e", "n", "d", "o", "r">>
S_dep    == <<"d", "e", "p", ".", "g", "o">>

\* directories, each with its entries in the order a directory read returns them
FSDirs ==
    ( <<>>               :> <<S_git, S_cmd, S_pkg>> ) @@
    ( <<S_git>>          :> <<S_config>> ) @@
    ( <<S_cmd>>          :> <<S_main, S_notes>> ) @@
    ( <<S_pkg>>          :> <<S_docs, S_lib, S_vendor>> ) @@
    ( <<S_pkg, S_docs>>  :> <<>> ) @@
    ( <<S_pkg, S_vendor>> :> <<S_dep>> )

\* regular files and their content
FSFiles ==
    ( <<S_git, S_config>>        :> <<"[core]">> ) @@
    ( <<S_cmd, S_main>>          :> <<"package main">> ) @@
    ( <<S_cmd, S_notes>>         :> <<"todo">> ) @@
    ( <<S_pkg, S_lib>>           :> <<"package pkg">> ) @@
    ( <<S_pkg, S_vendor, S_dep>> :> <<"package dep">> )

IsDirPath(p) == p \in DOMAIN FSDirs

\* the scan roots --paths may name, and the directory each denotes
Scope_dot == <<".">>
Scope_cmd == <<".", "/">> \o S_cmd
Scope_pkg == <<".", "/">> \o S_pkg
ScopeNames == {Scope_dot, Scope_cmd, Scope_pkg}

ScopeDir(scope) ==
    IF scope = Scope_cmd THEN <<S_cmd>>
    ELSE IF scope = Scope_pkg THEN <<S_pkg>>
    ELSE <<>>

-----------------------------------------------------------------------------
(* Regular expressions: the part of the RE2 syntax the patterns below use  *)
(* (literals, escapes, ".", "*", "^", "$"); a group that is not closed     *)
(* does not compile.                                                       *)

P_all     == <<".", "*">>
P_go      == <<".", "*", "\\", ".", "g", "o", "$">>
P_vendorSlash == <<"v", "e", "n", "d", "o", "r", "/">>
P_vendorEnd   == <<"v", "e", "n", "d", "o", "r", "$">>
P_gitDir  == <<"^", ".", "*", "\\", ".", "g", "i", "t", "$">>
P_bad     == <<"(">>
P_empty   == <<>>

BadRegex == [ok |-> FALSE, toks |-> <<>>]

RECURSIVE ParseRegex(_, _, _)
ParseRegex(p, i, acc) ==
    IF i > Len(p) THEN [ok |-> TRUE, toks |-> acc]
    ELSE LET c == p[i] IN
        CASE c = "\\" ->
                IF i = Len(p) THEN BadRegex
                ELSE ParseRegex(p, i + 2,
                        Append(acc, [kind |-> "lit", ch |-> p[i + 1], star |-> FALSE]))
          [] c = "*" ->
                IF acc = <<>> \/ acc[Len(acc)].star \/ acc[Len(acc)].kind \in {"bol", "eol"}
                THEN BadRegex
                ELSE ParseRegex(p, i + 1, [acc EXCEPT ![Len(acc)].star = TRUE])
          [] c \in {"(", ")", "[", "]"} -> BadRegex
          [] c = "." ->
                ParseRegex(p, i + 1, Append(acc, [kind |-> "any", ch |-> "", star |-> FALSE]))
          [] c = "^" ->
                ParseRegex(p, i + 1, Append(acc, [kind |-> "bol", ch |-> "", star |-> FALSE]))
          [] c = "$" ->
                ParseRegex(p, i + 1, Append(acc, [kind |-> "eol", ch |-> "", star |-> FALSE]))
          [] OTHER ->
                ParseRegex(p, i + 1, Append(acc, [kind |-> "lit", ch |-> c, star |-> FALSE]))

\* regexp.Compile
Compile(p) == ParseRegex(p, 1, <<>>)

Fits(t, c) == t.kind = "any" \/ (t.kind = "lit" /\ t.ch = c)

RECURSIVE MatchHere(_, _, _, _)
\* the tokens from the k-th on match s starting at position i
MatchHere(toks, k, s, i) ==
    IF k > Len(toks) THEN TRUE
    ELSE LET t == toks[k] IN
        CASE t.kind = "bol" -> i = 1 /\ MatchHere(toks, k + 1, s, i)
          [] t.kind = "eol" -> i = Len(s) + 1 /\ MatchHere(toks, k + 1, s, i)
          [] OTHER ->
                IF t.star
                THEN \/ MatchHere(toks, k + 1, s, i)
                     \/ (i <= Len(s) /\ Fits(t, s[i]) /\ MatchHere(toks, k, s, i + 1))
                ELSE i <= Len(s) /\ Fits(t, s[i]) /\ MatchHere(toks, k + 1, s, i + 1)

\* regexp.MatchString: the pattern finds a match anywhere in s
MatchString(re, s) == \E i \in 1..(Len(s) + 1) : MatchHere(re.toks, 1, s, i)

-----------------------------------------------------------------------------
(* pkg/pathmatcher: the PathMatcher implementations *)

\* the value a failed constructor returns beside its error
NilMatcher == [kind |-> "nil", toks |-> <<>>, ignored |-> {}]

\* NewRegexPathMatcher: a matcher and "" or, if the pattern does not compile, an error
NewRegexPathMatcher(pattern) ==
    LET re == Compile(pattern)
    IN  IF re.ok
        THEN [m |-> [kind |-> "regex", toks |-> re.toks, ignored |-> {}], err |-> ""]
        ELSE [m |-> NilMatcher, err |-> "InvalidPatternError"]

\* NewGitignorePathMatcher: fails when git is not on the search path, or when
\* asking git fails; otherwise it holds what git reports as ignored
NewGitignorePathMatcher(e) ==
    CASE e.git = "missing" -> [m |-> NilMatcher, err |-> "GitNotInstalledError"]
      [] e.git = "broken"  -> [m |-> NilMatcher, err |-> "ExternalToolError"]
      [] OTHER -> [m |-> [kind |-> "gitignore", toks |-> <<>>, ignored |-> e.ignored],
                   err |-> ""]

\* errors.IsGitNotInstalledError
IsGitNotInstalledError(err) == err = "GitNotInstalledError"

\* PathMatcher.Matches of a constructed regex or gitignore matcher
Matches(m, path) ==
    IF m.kind = "regex" THEN MatchString(m, path) ELSE path \in m.ignored

RECURSIVE CompoundMatches(_, _, _)
\* CompoundPathMatcher.Matches: "true" at the first child that matches, "false"
\* if none does. Calling Matches on a nil child either panics (nilDeref) or
\* finds nothing to match, depending on what the method reads of its receiver.
CompoundMatches(children, path, nilDeref) ==
    IF children = <<>> THEN "false"
    ELSE LET c == Head(children) IN
        IF c.kind = "nil"
        THEN IF nilDeref THEN "panic"
             ELSE CompoundMatches(Tail(children), path, nilDeref)
        ELSE IF Matches(c, path) THEN "true"
        ELSE CompoundMatches(Tail(children), path, nilDeref)

-----------------------------------------------------------------------------
(* pkg/filetree: the gatherer *)

\* File.Type: the extension of the base name without its dot, "" if none
FileType(name) ==
    LET d == LastDot(name)
    IN  IF d = 0 THEN <<>> ELSE SubSeq(name, d + 1, Len(name))

RootNode == [parent |-> 0, name |-> <<"/">>, isDir |-> TRUE]

\* the index of the child of node parent with this name and kind, 0 if none
FindChild(nodes, parent, name, isDir) ==
    LET found == {i \in 1..Len(nodes) :
                    /\ nodes[i].parent = parent
                    /\ nodes[i].name = name
                    /\ nodes[i].isDir = isDir}
    IN  IF found = {} THEN 0 ELSE CHOOSE i \in found : \A j \in found : i <= j

\* the node of an entry under parent: the one already there, or a new last child
AddNode(nodes, parent, name, isDir) ==
    LET at == FindChild(nodes, parent, name, isDir)
    IN  IF at # 0 THEN [nodes |-> nodes, idx |-> at]
        ELSE [nodes |-> Append(nodes, [parent |-> parent, name |-> name, isDir |-> isDir]),
              idx |-> Len(nodes) + 1]

EmptyWalk ==
    [files |-> <<>>, origin |-> <<>>, nodes |-> <<RootNode>>, enumerated |-> <<>>,
     loaded |-> <<>>, err |-> "", panic |-> FALSE]

RECURSIVE WalkEntry(_, _, _, _)
RECURSIVE WalkChildren(_, _, _, _, _)

\* One entry of the walk of scan root ctx.dir, rel its path below the root:
\* excluded entries are skipped whole; a directory becomes an internal node and
\* is read; a file becomes a leaf and, if included, is loaded and selected.
WalkEntry(acc, ctx, parent, rel) ==
    LET abs    == ctx.dir \o rel
        path   == JoinSlash(rel)
        name   == rel[Len(rel)]
        ex     == CompoundMatches(ctx.exclude, path, ctx.nilDeref)
        added  == AddNode(acc.nodes, parent, name, IsDirPath(abs))
        inTree == [acc EXCEPT !.nodes = added.nodes]
    IN  IF acc.err # "" \/ acc.panic THEN acc
        ELSE IF ex = "panic" THEN [acc EXCEPT !.panic = TRUE]
        ELSE IF ex = "true" THEN acc
        ELSE IF IsDirPath(abs)
        THEN IF abs \in ctx.unreadable
             THEN [inTree EXCEPT !.err = "FilesystemError"]
             ELSE WalkChildren([inTree EXCEPT !.enumerated = Append(@, [scope |-> ctx.scope, abs |-> abs])],
                               ctx, added.idx, rel, FSDirs[abs])
        ELSE IF ~Matches(ctx.include, path) THEN inTree
        ELSE IF abs \in ctx.unreadable
             THEN [inTree EXCEPT !.err = "FilesystemError"]
             ELSE [inTree EXCEPT
                     !.loaded = Append(@, [scope |-> ctx.scope, abs |-> abs]),
                     !.files = Append(@, [Path |-> path, Type |-> FileType(name),
                                          Data |-> FSFiles[abs]]),
                     !.origin = Append(@, [scope |-> ctx.scope, abs |-> abs])]

\* the entries of one directory, in the order read
WalkChildren(acc, ctx, parent, rel, names) ==
    IF names = <<>> THEN acc
    ELSE WalkChildren(WalkEntry(acc, ctx, parent, rel \o <<Head(names)>>),
                      ctx, parent, rel, Tail(names))

RECURSIVE WalkScopes(_, _, _)
\* the scan roots from the k-th on, in order, into one tree and one list
WalkScopes(acc, o, k) ==
    IF k > Len(o.PathScopes) \/ acc.err # "" \/ acc.panic THEN acc
    ELSE LET dir == ScopeDir(o.PathScopes[k])
             ctx == [dir |-> dir, scope |-> k, include |-> o.IncludeMatcher,
                     exclude |-> o.ExcludeMatcher, unreadable |-> o.unreadable,
                     nilDeref |-> o.nilDeref]
         IN  IF dir \in o.unreadable
             THEN [acc EXCEPT !.err = "FilesystemError"]
             ELSE WalkScopes(
                     WalkChildren([acc EXCEPT !.enumerated = Append(@, [scope |-> k, abs |-> dir])],
                                  ctx, 1, <<>>, FSDirs[dir]),
                     o, k + 1)

\* (a variant that goes on with the list and tree of the call before)
NewWalk_Kept(prev) == prev

\* the list and the tree a call starts from: they are built fresh on every
\* call, whatever the call before (prev) left
NewWalk(prev) == EmptyWalk

\* GatherFiles called after a call that left prev: (files, rootNode, err).
\* Beside an error it returns nothing or, if partial, what the walk had built
\* (the caller must not rely on either).
GatherFilesFrom(prev, o, partial) ==
    LET w == WalkScopes(NewWalk(prev), o, 1)
    IN  IF w.err # "" /\ ~partial
        THEN [w EXCEPT !.files = <<>>, !.origin = <<>>, !.nodes = <<>>]
        ELSE w

\* GatherFiles, the first call of the process
GatherFiles(o, partial) == GatherFilesFrom(EmptyWalk, o, partial)

RECURSIVE SortedSeq(_)
\* a finite set of integers as an increasing sequence
SortedSeq(S) ==
    IF S = {} THEN <<>>
    ELSE LET m == CHOOSE x \in S : \A y \in S : x <= y
         IN  <<m>> \o SortedSeq(S \ {m})

\* FileNode.Children of node i, in the order they were added
ChildrenOf(nodes, i) == SortedSeq({j \in 1..Len(nodes) : nodes[j].parent = i})

RECURSIVE GenerateFileTree(_, _, _, _)
RECURSIVE RenderChildren(_, _, _)

\* GenerateFileTree(node, prefix, isLast): the node's line (the root's is its
\* bare name), then its children, each under the prefix grown by one level.
\* The box-drawing connectors are written in ASCII here.
GenerateFileTree(nodes, i, prefix, isLast) ==
    IF nodes[i].parent = 0
    THEN nodes[i].name \o <<"\n">> \o RenderChildren(nodes, ChildrenOf(nodes, i), prefix)
    ELSE prefix \o <<(IF isLast THEN "+-- " ELSE "|-- ")>> \o nodes[i].name \o <<"\n">>
         \o RenderChildren(nodes, ChildrenOf(nodes, i),
                           prefix \o <<(IF isLast THEN "    " ELSE "|   ")>>)

RenderChildren(nodes, kids, prefix) ==
    IF kids = <<>> THEN <<>>
    ELSE GenerateFileTree(nodes, Head(kids), prefix, Len(kids) = 1)
         \o RenderChildren(nodes, Tail(kids), prefix)

-----------------------------------------------------------------------------
(* cmd: gatherContext *)

GitWarning ==
    [text |-> <<"warning: git not found in PATH, skipping .gitignore\n">>, type |-> "warning"]

\* (a variant that treats every gitignore failure as a warning)
GitignoreErrorIsFatal_Never(err) == FALSE

\* whether a failure of NewGitignorePathMatcher ends gatherContext
GitignoreErrorIsFatal(err) == ~IsGitNotInstalledError(err)

\* (a variant that forgets the --exclude pattern)
ExcludeFlagMatchers_Dropped(o) == <<>>

\* what the --exclude flag appends to excludeMatchers
ExcludeFlagMatchers(o) ==
    IF o.excludeFlag # <<>> THEN <<NewRegexPathMatcher(o.excludeFlag).m>> ELSE <<>>

\* what --exclude-from-gitignore appends: the constructor's matcher, also when
\* the constructor failed for want of git
GitignoreMatchers(o, e) ==
    IF o.excludeFromGitignoreFlag THEN <<NewGitignorePathMatcher(e).m>> ELSE <<>>

\* (a variant that excludes the .git directory whatever the flag says)
GitDirMatchers_Always(o) == <<NewRegexPathMatcher(P_gitDir).m>>

\* what --exclude-git-dir appends
GitDirMatchers(o) ==
    IF o.excludeGitDirFlag THEN <<NewRegexPathMatcher(P_gitDir).m>> ELSE <<>>

\* the exclude matchers, in the order they are appended, or the first error
BuildExcludeMatchers(o, e) ==
    LET ex == NewRegexPathMatcher(o.excludeFlag)
        gi == NewGitignorePathMatcher(e)
        gd == NewRegexPathMatcher(P_gitDir)
        m3 == ExcludeFlagMatchers(o) \o GitignoreMatchers(o, e) \o GitDirMatchers(o)
        warned == IF o.excludeFromGitignoreFlag /\ gi.err # "" THEN <<GitWarning>> ELSE <<>>
    IN  IF o.excludeFlag # <<>> /\ ex.err # ""
        THEN [err |-> "error creating exclude matcher", matchers |-> <<>>,
              warnings |-> <<>>]
        ELSE IF o.excludeFromGitignoreFlag /\ gi.err # "" /\ GitignoreErrorIsFatal(gi.err)
        THEN [err |-> "error creating gitignore matcher", matchers |-> <<>>,
              warnings |-> <<>>]
        ELSE IF o.excludeGitDirFlag /\ gd.err # ""
        THEN [err |-> "error creating git directory matcher", matchers |-> <<>>,
              warnings |-> warned]
        ELSE [err |-> "", matchers |-> m3, warnings |-> warned]

\* (a variant that leaves ExcludeMatcher out of the options)
FileGatherOptions_NoExclude(includeMatcher, excludeMatchers, pathsFlag) ==
    [IncludeMatcher |-> includeMatcher,
     ExcludeMatcher |-> <<>>,
     PathScopes     |-> pathsFlag]

\* (a variant that passes only the first path)
FileGatherOptions_FirstPath(includeMatcher, excludeMatchers, pathsFlag) ==
    [IncludeMatcher |-> includeMatcher,
     ExcludeMatcher |-> excludeMatchers,
     PathScopes     |-> <<pathsFlag[1]>>]

\* (a variant that passes the paths in reverse order)
FileGatherOptions_Reversed(includeMatcher, excludeMatchers, pathsFlag) ==
    [IncludeMatcher |-> includeMatcher,
     ExcludeMatcher |-> excludeMatchers,
     PathScopes     |-> [i \in 1..Len(pathsFlag) |-> pathsFlag[Len(pathsFlag) + 1 - i]]]

\* (a variant that passes the include matcher in both fields)
FileGatherOptions_IncludeAsExclude(includeMatcher, excludeMatchers, pathsFlag) ==
    [IncludeMatcher |-> includeMatcher,
     ExcludeMatcher |-> <<includeMatcher>>,
     PathScopes     |-> pathsFlag]

\* the FileGatherOptions handed to GatherFiles
FileGatherOptions(includeMatcher, excludeMatchers, pathsFlag) ==
    [IncludeMatcher |-> includeMatcher,
     ExcludeMatcher |-> excludeMatchers,
     PathScopes     |-> pathsFlag]

\* (a variant that passes GatherFiles' values on beside its error)
GatherReturn_Partial(g) ==
    [files |-> g.files, nodes |-> g.nodes,
     err |-> IF g.err # "" THEN "error gathering files" ELSE ""]

\* (a variant that drops the tree on success)
GatherReturn_NoTree(g) ==
    IF g.err # ""
    THEN [files |-> <<>>, nodes |-> <<>>, err |-> "error gathering files"]
    ELSE [files |-> g.files, nodes |-> <<>>, err |-> ""]

\* what gatherContext returns of GatherFiles' result
GatherReturn(g) ==
    IF g.err # ""
    THEN [files |-> <<>>, nodes |-> <<>>, err |-> "error gathering files"]
    ELSE [files |-> g.files, nodes |-> g.nodes, err |-> ""]

NotGathered ==
    [called |-> FALSE, exclude |-> <<>>, include |-> NilMatcher, scopes |-> <<>>,
     nilDeref |-> FALSE, files |-> <<>>, origin |-> <<>>, nodes |-> <<>>, err |-> "",
     panic |-> FALSE, enumerated |-> <<>>, loaded |-> <<>>,
     gfErr |-> "", gfFiles |-> <<>>, warnings |-> <<>>]

\* no second call of GatherFiles has been made
NotRegathered ==
    [called |-> FALSE, files |-> <<>>, nodes |-> <<>>, err |-> "", tree |-> <<>>,
     exclude |-> <<>>, include |-> NilMatcher]

gatherContext(o, e, nilDeref, partial) ==
    LET b   == BuildExcludeMatchers(o, e)
        inc == NewRegexPathMatcher(o.includeFlag)
        fgo == FileGatherOptions(inc.m, b.matchers, o.pathsFlag)
        g   == GatherFiles([IncludeMatcher |-> fgo.IncludeMatcher,
                            ExcludeMatcher |-> fgo.ExcludeMatcher,
                            PathScopes |-> fgo.PathScopes,
                            unreadable |-> e.unreadable, nilDeref |-> nilDeref],
                           partial)
        ret == GatherReturn(g)
    IN  IF b.err # ""
        THEN [NotGathered EXCEPT !.err = b.err, !.warnings = b.warnings]
        ELSE IF inc.err # ""
        THEN [NotGathered EXCEPT !.err = "error creating include matcher",
                                 !.warnings = b.warnings]
        ELSE [called |-> TRUE, exclude |-> b.matchers,
              include |-> inc.m, scopes |-> o.pathsFlag,
              nilDeref |-> nilDeref,
              files |-> IF g.panic THEN <<>> ELSE ret.files,
              origin |-> IF g.panic \/ g.err # "" THEN <<>> ELSE g.origin,
              nodes |-> IF g.panic THEN <<>> ELSE ret.nodes,
              err |-> IF g.panic THEN "" ELSE ret.err,
              panic |-> g.panic,
              enumerated |-> g.enumerated, loaded |-> g.loaded,
              gfErr |-> g.err, gfFiles |-> g.files, warnings |-> b.warnings]

-----------------------------------------------------------------------------
(* pkg/config: the stored configuration *)

\* the values tried for the fields of a Config; the API keys are secrets, no
\* other field holds one
Providers == {"azure", "openai", "other", ""}
Endpoints == {"https://e", ""}
ApiVersions == {"v1"}
ModelDeployments == {"dep", ""}
Models == {"gpt", ""}
Keys == {"sk-1", "sk-2"}

Configs ==
    [Provider : Providers, Endpoint : Endpoints, ApiVersion : ApiVersions,
     ModelDeployment : ModelDeployments, Model : Models, apiKey : Keys \cup {""}]

\* the zero value of Config (var Cfg Config)
ZeroConfig ==
    [Provider |-> "", Endpoint |-> "", ApiVersion |-> "", ModelDeployment |-> "",
     Model |-> "", apiKey |-> ""]

\* NewConfig(...) followed by SetAPIKey(apiKey)
NewConfig(provider, endpoint, apiVersion, modelDeployment, model, apiKey) ==
    [Provider |-> provider, Endpoint |-> endpoint, ApiVersion |-> apiVersion,
     ModelDeployment |-> modelDeployment, Model |-> model, apiKey |-> apiKey]

SupportedProviders == {"azure", "openai"}

\* ValidateConfig: the validation errors, in the order they are found
ValidateConfig(c) ==
    (IF c.Provider = "" THEN <<"provider must be provided and not be empty">> ELSE <<>>)
    \o (IF c.Provider \notin SupportedProviders THEN <<"provider not supported">> ELSE <<>>)
    \o (IF c.apiKey = "" THEN <<"apiKey must be provided and not be empty">> ELSE <<>>)
    \o (IF c.Endpoint = "" THEN <<"endpoint must be provided and not be empty">> ELSE <<>>)
    \o (IF c.ApiVersion = "" THEN <<"apiVersion must be provided and not be empty">> ELSE <<>>)
    \o (IF c.Provider = "azure" /\ c.ModelDeployment = ""
        THEN <<"modelDeployment must be provided and not be empty">> ELSE <<>>)
    \o (IF c.Provider = "openai" /\ c.Model = ""
        THEN <<"model must be provided and not be empty">> ELSE <<>>)

\* (a variant that writes the unexported field as well)
Marshal_WithKey(c) ==
    <<"{", "\"provider\":", c.Provider, ",", "\"endpoint\":", c.Endpoint, ",",
      "\"apiVersion\":", c.ApiVersion, ",", "\"modelDeployment\":", c.ModelDeployment,
      ",", "\"model\":", c.Model, ",", "\"apiKey\":", c.apiKey, "}">>

\* json.Marshal(config): the exported fields under their json names; apiKey is
\* unexported and is not written
Marshal(c) ==
    <<"{", "\"provider\":", c.Provider, ",", "\"endpoint\":", c.Endpoint, ",",
      "\"apiVersion\":", c.ApiVersion, ",", "\"modelDeployment\":", c.ModelDeployment,
      ",", "\"model\":", c.Model, "}">>

\* the value that follows a field name in the data, or what the field held
FieldOf(data, name, held) ==
    LET at == {i \in 1..(Len(data) - 1) : data[i] = name}
    IN  IF at = {} THEN held ELSE data[(CHOOSE i \in at : \A j \in at : i <= j) + 1]

\* json.Unmarshal(data, &Cfg): sets the exported fields the data names and
\* leaves the rest of Cfg, apiKey included, as it was
Unmarshal(data, into) ==
    IF Len(data) < 2 \/ data[1] # "{" \/ data[Len(data)] # "}"
    THEN [err |-> "json: syntax error", c |-> into]
    ELSE [err |-> "",
          c |-> [into EXCEPT
                   !.Provider = FieldOf(data, "\"provider\":", @),
                   !.Endpoint = FieldOf(data, "\"endpoint\":", @),
                   !.ApiVersion = FieldOf(data, "\"apiVersion\":", @),
                   !.ModelDeployment = FieldOf(data, "\"modelDeployment\":", @),
                   !.Model = FieldOf(data, "\"model\":", @)]]

NoFile == [exists |-> FALSE, data |-> <<>>]
NoKey == [set |-> FALSE, key |-> ""]

\* the keyring entry after storeApiKeyInKeyring(apiKey) succeeded
storeApiKeyInKeyring(keyring, apiKey) == [set |-> TRUE, key |-> apiKey]

\* getApiKeyFromKeyring(): the key, or an error if there is none
getApiKeyFromKeyring(keyring) ==
    IF keyring.set THEN [err |-> "", key |-> keyring.key]
    ELSE [err |-> "secret not found in keyring", key |-> ""]

\* the keyring after clearApiKeyInKeyring() succeeded
clearApiKeyInKeyring(keyring) == NoKey

\* what the last call of the package did: whether it stored the key and
\* whether it wrote, or removed, the file
NoCall == [op |-> "", err |-> "", stored |-> FALSE, wrote |-> FALSE]

\* a machine on which nobody has logged in
FreshStore == [file |-> NoFile, keyring |-> NoKey, Cfg |-> ZeroConfig, last |-> NoCall]

\* what may fail outside the process during one call
SaveFailures == {"", "xdg", "keyring", "write"}
LoadFailures == {"", "xdg", "read", "keyring"}
ClearFailures == {"", "xdg", "remove", "keyring"}

\* SaveConfig(config): validate, find the directory, marshal, store the key in
\* the keyring and, only if that succeeded, write the file
SaveConfig(config, st, fail) ==
    IF ValidateConfig(config) # <<>>
    THEN [st EXCEPT !.last = [NoCall EXCEPT !.op = "SaveConfig", !.err = "ConfigValidationError"]]
    ELSE IF fail = "xdg"
    THEN [st EXCEPT !.last = [NoCall EXCEPT !.op = "SaveConfig", !.err = "xdg"]]
    ELSE IF fail = "keyring"
    THEN [st EXCEPT !.last = [NoCall EXCEPT !.op = "SaveConfig", !.err = "keyring"]]
    ELSE IF fail = "write"
    THEN [st EXCEPT !.keyring = storeApiKeyInKeyring(st.keyring, config.apiKey),
                    !.last = [op |-> "SaveConfig", err |-> "write",
                              stored |-> TRUE, wrote |-> FALSE]]
    ELSE [st EXCEPT !.file = [exists |-> TRUE, data |-> Marshal(config)],
                    !.keyring = storeApiKeyInKeyring(st.keyring, config.apiKey),
                    !.last = [op |-> "SaveConfig", err |-> "",
                              stored |-> TRUE, wrote |-> TRUE]]

\* LoadConfig(): read the file, unmarshal it into Cfg, then take the key from
\* the keyring; Cfg keeps what was unmarshalled when the keyring fails
LoadConfig(st, fail) ==
    LET u == Unmarshal(st.file.data, st.Cfg)
        k == getApiKeyFromKeyring(st.keyring)
        failed(e) == [NoCall EXCEPT !.op = "LoadConfig", !.err = e]
    IN  IF fail = "xdg" THEN [st EXCEPT !.last = failed("xdg")]
        ELSE IF fail = "read" \/ ~st.file.exists THEN [st EXCEPT !.last = failed("read")]
        ELSE IF u.err # "" THEN [st EXCEPT !.last = failed(u.err)]
        ELSE IF fail = "keyring" \/ k.err # ""
        THEN [st EXCEPT !.Cfg = u.c, !.last = failed("keyring")]
        ELSE [st EXCEPT !.Cfg = [u.c EXCEPT !.apiKey = k.key],
                        !.last = [NoCall EXCEPT !.op = "LoadConfig"]]

\* ClearConfig(): remove the file, then clear the key
ClearConfig(st, fail) ==
    LET failed(e) == [NoCall EXCEPT !.op = "ClearConfig", !.err = e]
    IN  IF fail = "xdg" THEN [st EXCEPT !.last = failed("xdg")]
        ELSE IF fail = "remove" \/ ~st.file.exists THEN [st EXCEPT !.last = failed("remove")]
        ELSE IF fail = "keyring" \/ ~st.keyring.set
        THEN [st EXCEPT !.file = NoFile,
                        !.last = [failed("keyring") EXCEPT !.wrote = TRUE]]
        ELSE [st EXCEPT !.file = NoFile,
                        !.keyring = clearApiKeyInKeyring(st.keyring),
                        !.last = [NoCall EXCEPT !.op = "ClearConfig", !.wrote = TRUE]]

\* NewFromConfigFile(): LoadConfig, then ValidateConfig of what was loaded
NewFromConfigFile(st, fail) ==
    LET l == LoadConfig(st, fail)
    IN  IF l.last.err # "" THEN [store |-> l, err |-> l.last.err, errors |-> <<>>]
        ELSE IF ValidateConfig(l.Cfg) # <<>>
        THEN [store |-> l, err |-> "ConfigValidationError", errors |-> ValidateConfig(l.Cfg)]
        ELSE [store |-> l, err |-> "", errors |-> <<>>]

\* loginCmd.RunE with these answers: build the Config, save it; a validation
\* error is printed and suppressed
Login(answers, st, fail) ==
    LET cfg == NewConfig(answers.Provider, answers.Endpoint, answers.ApiVersion,
                         answers.ModelDeployment, answers.Model, answers.apiKey)
        s   == SaveConfig(cfg, st, fail)
    IN  [store |-> s,
         err |-> IF s.last.err = "ConfigValidationError" THEN "" ELSE s.last.err,
         printed |-> IF s.last.err = "ConfigValidationError"
                     THEN [i \in 1..Len(ValidateConfig(cfg)) |->
                             [text |-> <<ValidateConfig(cfg)[i], "\n">>, type |-> "error"]]
                     ELSE IF s.last.err = ""
                     THEN <<[text |-> <<"config saved successfully\n">>, type |-> "success"]>>
                     ELSE <<>>]

\* a machine on which a valid configuration has been saved
ValidConfig == NewConfig("openai", "https://e", "v1", "", "gpt", "sk-1")
SignedInStore == SaveConfig(ValidConfig, FreshStore, "")

-----------------------------------------------------------------------------
(* cmd: interactiveChat *)

warnFileSizeThreshold == 100000

Info(text) == [text |-> text, type |-> "info"]
Warning(text) == [text |-> text, type |-> "warning"]
Notice(text) == [text |-> text, type |-> "notice"]

Exit == <<"/exit">>
Hi   == <<"hi">>
UserInputs == {Exit, Hi}

\* (a variant that knows no slash command)
IsExit_Never(input) == FALSE

\* initialUserMessage == "/exit", userInput == "/exit"
IsExit(input) == input = Exit
Deltas == {<<"a">>, <<"b">>}

SystemRole == "system"
UserRole == "user"
AssistantRole == "assistant"

RECURSIVE FileBlocks(_)
\* "./<path>\n'''<type>\n<data>\n'''\n\n" for every selected file (the code
\* fence, three backquotes, is written ''' in this module)
FileBlocks(files) ==
    IF files = <<>> THEN <<>>
    ELSE LET f == Head(files) IN
         <<"./">> \o f.Path \o <<"\n'''">> \o f.Type \o <<"\n">> \o f.Data
         \o <<"\n'''\n\n">> \o FileBlocks(Tail(files))

\* (a variant that leaves the rendered tree out of the context)
ContextStr_NoTree(tree, files) ==
    <<"Context:\n\n">> \o <<"## File contents\n\n">> \o FileBlocks(files)

\* contextStr
ContextStr(tree, files) ==
    <<"Context:\n\n">> \o <<"## File tree\n\n">> \o <<"'''\n">> \o tree \o <<"'''\n\n">>
    \o <<"## File contents\n\n">> \o FileBlocks(files)

\* systemMessage
SystemMessage(tree, files) ==
    <<"You are a helpful coding assistant. ">>
    \o <<"Below you will find relevant context to answer the user's question.\n\n">>
    \o ContextStr(tree, files) \o <<"\n\n">>
    \o <<"Please follow the users instructions, you can do this!">>

\* the warnings for files larger than the threshold
RECURSIVE LargeFileWarnings(_)
LargeFileWarnings(files) ==
    IF files = <<>> THEN <<>>
    ELSE (IF Len(Head(files).Data) > warnFileSizeThreshold
          THEN <<Warning(<<"warning: ">> \o Head(files).Path \o <<" is very large">>)>>
          ELSE <<>>)
         \o LargeFileWarnings(Tail(files))

NoStream == [open |-> FALSE, recvs |-> 0]

\* what git reports as ignored, by the path asked about
GitIgnored == {JoinSlash(<<S_lib>>), JoinSlash(<<S_pkg, S_lib>>)}

\* the entries whose read may fail
MayFail == {<<S_pkg, S_vendor>>, <<S_cmd, S_main>>}

\* every invocation tried: the flags, the --paths lists up to MaxScopes roots,
\* the state of git, and up to MaxFailures unreadable entries
AllOpts ==
    [includeFlag : {P_all, P_go, P_bad},
     excludeFlag : {P_empty, P_vendorSlash, P_vendorEnd, P_bad},
     pathsFlag : UNION {[1..n -> ScopeNames] : n \in 1..MaxScopes},
     excludeFromGitignoreFlag : BOOLEAN,
     excludeGitDirFlag : BOOLEAN,
     args : {<<>>}]

AllEnvs ==
    [git : {"ok", "missing", "broken"},
     ignored : {GitIgnored},
     unreadable : {U \in SUBSET MayFail : Cardinality(U) <= MaxFailures}]

\* a few invocations, with and without a prompt argument
FewOpts ==
    [includeFlag : {P_go},
     excludeFlag : {P_vendorSlash, P_bad},
     pathsFlag : {<<Scope_cmd, Scope_pkg>>, <<Scope_pkg>>},
     excludeFromGitignoreFlag : {TRUE},
     excludeGitDirFlag : {TRUE},
     args : {<<>>, <<Hi>>, <<Exit>>}]

FewEnvs == [git : {"ok"}, ignored : {GitIgnored}, unreadable : {{}}]

Start(optsSet, envSet) ==
    /\ opts \in optsSet
    /\ env \in envSet
    /\ pc = "gather"
    /\ gather = NotGathered
    /\ printed = <<>>
    /\ fileTree = <<>>
    /\ messages = <<>>
    /\ requests = <<>>
    /\ stream = NoStream
    /\ messageStr = <<>>
    /\ retErr = ""
    /\ piped = FALSE
    /\ store = LoadConfig(SignedInStore, "")
    /\ calls = {"NewFromConfigFile"}
    /\ entered = <<>>
    /\ regather = NotRegathered

\* a configuration file that an older release or an editor left behind: it
\* parses, and does not validate
StaleStore ==
    [SignedInStore EXCEPT
        !.file = [exists |-> TRUE, data |-> Marshal([ValidConfig EXCEPT !.Model = ""])]]

FewStores == {FreshStore, SignedInStore, StaleStore}

\* the root command is run: from a terminal or with stdin piped, logged in or not
Init ==
    /\ opts \in FewOpts
    /\ env \in FewEnvs
    /\ piped \in BOOLEAN
    /\ store \in FewStores
    /\ pc = "start"
    /\ gather = NotGathered
    /\ printed = <<>>
    /\ fileTree = <<>>
    /\ messages = <<>>
    /\ requests = <<>>
    /\ stream = NoStream
    /\ messageStr = <<>>
    /\ retErr = ""
    /\ calls = {}
    /\ entered = <<>>
    /\ regather = NotRegathered

\* interactiveChat about to call gatherContext, the configuration loaded
\* (git is consulted only under --exclude-from-gitignore: without the flag one
\* state of git stands for all)
InitGather ==
    /\ Start(AllOpts, AllEnvs)
    /\ (opts.excludeFromGitignoreFlag \/ env.git = "ok")

\* (a variant that never takes stdin for piped)
Dispatch_Terminal(isPiped, args) == "interactiveChat"

\* RunE's choice: piped stdin needs a prompt and goes to nonInteractive, a
\* terminal goes to interactiveChat
Dispatch(isPiped, args) ==
    IF isPiped
    THEN IF Len(args) = 0 THEN "NoPromptProvidedError" ELSE "nonInteractive"
    ELSE "interactiveChat"

\* the root command's RunE
RunE ==
    /\ pc = "start"
    /\ LET d == Dispatch(piped, opts.args) IN
         IF d = "NoPromptProvidedError"
         THEN pc' = "done" /\ retErr' = d
         ELSE pc' = d /\ retErr' = retErr
    /\ UNCHANGED <<opts, env, gather, printed, fileTree, messages, requests, stream,
                   messageStr>>
    /\ UNCHANGED <<piped, store, calls, entered, regather>>

\* what the login command is answered with
LoginAnswers == {ValidConfig, [ValidConfig EXCEPT !.apiKey = ""]}

\* the validation errors as interactiveChat prints them
ConfigErrors(errors) ==
    [i \in 1..Len(errors) |-> [text |-> <<"error: ", errors[i], "\n">>, type |-> "error"]]

\* interactiveChat up to its client: read the configuration; if it does not
\* validate offer to log in, log in, and read it again
LoadConfiguration ==
    /\ pc = "interactiveChat"
    /\ \E f1, f2 \in LoadFailures, fs \in SaveFailures, login \in BOOLEAN,
          answers \in LoginAnswers :
         LET first  == NewFromConfigFile(store, f1)
             invalid == first.err = "ConfigValidationError"
             l      == Login(answers, first.store, fs)
             second == NewFromConfigFile(IF invalid THEN l.store ELSE first.store, f2)
             shown  == IF invalid THEN ConfigErrors(first.errors) ELSE <<>>
         IN  IF first.err # "" /\ ~invalid
             THEN /\ store' = first.store
                  /\ calls' = calls \cup {"NewFromConfigFile"}
                  /\ printed' = printed
                  /\ retErr' = "error reading config"
                  /\ pc' = "done"
             ELSE IF invalid /\ ~login
             THEN /\ store' = first.store
                  /\ calls' = calls \cup {"NewFromConfigFile"}
                  /\ printed' = printed \o shown \o <<Info(<<"see ya later!">>)>>
                  /\ retErr' = retErr
                  /\ pc' = "done"
             ELSE IF invalid /\ l.err # ""
             THEN /\ store' = l.store
                  /\ calls' = calls \cup {"NewFromConfigFile", "loginCmd"}
                  /\ printed' = printed \o shown \o l.printed
                  /\ retErr' = "error logging in"
                  /\ pc' = "done"
             ELSE /\ store' = second.store
                  /\ calls' = calls \cup {"NewFromConfigFile"}
                                 \cup (IF invalid THEN {"loginCmd"} ELSE {})
                  /\ printed' = printed \o shown \o (IF invalid THEN l.printed ELSE <<>>)
                  /\ retErr' = IF second.err # "" THEN "error reading config" ELSE retErr
                  /\ pc' = IF second.err # "" THEN "done" ELSE "gather"
    /\ UNCHANGED <<opts, env, gather, fileTree, messages, requests, stream, messageStr>>
    /\ UNCHANGED <<piped, entered, regather>>

\* files, rootNode, err := gatherContext(gatherOpts)
GatherContext ==
    /\ pc = "gather"
    /\ \E nilDeref \in BOOLEAN, partial \in BOOLEAN :
           /\ gather' = gatherContext(opts, env, nilDeref, partial)
           /\ printed' = printed \o gather'.warnings
           /\ pc' = IF gather'.panic THEN "crashed" ELSE "gathered"
           /\ calls' = calls \cup {"gatherContext"}
                          \cup (IF gather'.called THEN {"GatherFiles"} ELSE {})
    /\ UNCHANGED <<opts, env, fileTree, messages, requests, stream, messageStr, retErr>>
    /\ UNCHANGED <<piped, store, entered, regather>>

\* if err != nil { return err }
ReturnGatherError ==
    /\ pc = "gathered"
    /\ gather.err # ""
    /\ retErr' = gather.err
    /\ pc' = "done"
    /\ UNCHANGED <<opts, env, gather, printed, fileTree, messages, requests, stream,
                   messageStr>>
    /\ UNCHANGED <<piped, store, calls, entered, regather>>

\* if len(files) == 0: warn, ask, and return nil whatever the answer
NoFiles ==
    /\ pc = "gathered"
    /\ gather.err = ""
    /\ Len(gather.files) = 0
    /\ \E proceed \in BOOLEAN :
         printed' = printed
            \o <<Warning(<<"No files found matching the given criteria.\n">>)>>
            \o (IF proceed THEN <<>> ELSE <<Info(<<"See ya later!">>)>>)
    /\ pc' = "done"
    /\ UNCHANGED <<opts, env, gather, fileTree, messages, requests, stream, messageStr,
                   retErr>>
    /\ UNCHANGED <<piped, store, calls, entered, regather>>

\* render the tree, show it, warn of large files, ask whether to proceed
ConfirmFiles ==
    /\ pc = "gathered"
    /\ gather.err = ""
    /\ Len(gather.files) # 0
    /\ LET tree == GenerateFileTree(gather.nodes, 1, <<>>, TRUE) IN
         /\ fileTree' = tree
         /\ \E proceed \in BOOLEAN :
              /\ printed' = printed
                    \o <<Info(<<"The following files will be used as context:\n">>),
                         Info(tree)>>
                    \o LargeFileWarnings(gather.files)
                    \o (IF proceed THEN <<>> ELSE <<Info(<<"See ya later!">>)>>)
              /\ pc' = IF proceed THEN "confirmed" ELSE "done"
    /\ UNCHANGED <<opts, env, gather, messages, requests, stream, messageStr, retErr>>
    /\ UNCHANGED <<piped, store, calls, entered, regather>>

\* assemble the system message, take the first user message
StartChat ==
    /\ pc = "confirmed"
    /\ \E typed \in UserInputs :
         LET initialUserMessage == IF Len(opts.args) > 0 THEN opts.args[1] ELSE typed IN
           /\ printed' = printed
                 \o <<Notice(<<"Type '/exit' to end the chat.\n">>)>>
                 \o (IF Len(opts.args) > 0
                     THEN <<Info(<<"user: ">> \o initialUserMessage \o <<"\n">>)>>
                     ELSE <<Info(<<"user: ">>)>>)
           /\ entered' = IF Len(opts.args) > 0 THEN entered ELSE Append(entered, typed)
           /\ IF IsExit(initialUserMessage)
              THEN pc' = "done" /\ messages' = messages
              ELSE /\ pc' = "loop"
                   /\ messages' =
                        <<[Role |-> SystemRole,
                           Content |-> SystemMessage(fileTree, gather.files)],
                          [Role |-> UserRole, Content |-> initialUserMessage]>>
    /\ UNCHANGED <<opts, env, gather, fileTree, requests, stream, messageStr, retErr>>
    /\ UNCHANGED <<piped, store, calls, regather>>

\* client.CreateChatCompletionStream(ctx, req)
OpenStream ==
    /\ pc = "loop"
    /\ Len(requests) < MaxTurns
    /\ requests' = Append(requests, messages)
    /\ calls' = calls \cup {"CreateChatCompletionStream"}
    /\ \E ok \in BOOLEAN :
         IF ok
         THEN /\ stream' = [open |-> TRUE, recvs |-> 0]
              /\ messageStr' = <<>>
              /\ printed' = Append(printed, Info(<<"bot: ">>))
              /\ pc' = "recv"
              /\ retErr' = retErr
         ELSE /\ retErr' = "error creating chat completion stream"
              /\ pc' = "done"
              /\ UNCHANGED <<stream, messageStr, printed>>
    /\ UNCHANGED <<opts, env, gather, fileTree, messages>>
    /\ UNCHANGED <<piped, store, entered, regather>>

\* stream.Recv() delivers a delta
RecvDelta ==
    /\ pc = "recv"
    /\ stream.recvs < MaxDeltas
    /\ \E d \in Deltas :
         /\ messageStr' = d
         /\ printed' = Append(printed, Info(d))
    /\ stream' = [stream EXCEPT !.recvs = @ + 1]
    /\ UNCHANGED <<opts, env, pc, gather, fileTree, messages, requests, retErr>>
    /\ UNCHANGED <<piped, store, calls, entered, regather>>

\* stream.Recv() delivers a response without choices
RecvNoChoices ==
    /\ pc = "recv"
    /\ stream.recvs < MaxDeltas
    /\ stream' = [stream EXCEPT !.recvs = @ + 1]
    /\ UNCHANGED <<opts, env, pc, gather, printed, fileTree, messages, requests,
                   messageStr, retErr>>
    /\ UNCHANGED <<piped, store, calls, entered, regather>>

\* stream.Recv() fails
RecvError ==
    /\ pc = "recv"
    /\ retErr' = "error reading response"
    /\ pc' = "done"
    /\ UNCHANGED <<opts, env, gather, printed, fileTree, messages, requests, stream,
                   messageStr>>
    /\ UNCHANGED <<piped, store, calls, entered, regather>>

\* stream.Recv() returns io.EOF: the answer joins the history, the user is prompted
RecvEOF ==
    /\ pc = "recv"
    /\ messages' = Append(messages, [Role |-> AssistantRole, Content |-> messageStr])
    /\ printed' = Append(printed, Info(<<"\nuser: ">>))
    /\ pc' = "input"
    /\ UNCHANGED <<opts, env, gather, fileTree, requests, stream, messageStr, retErr>>
    /\ UNCHANGED <<piped, store, calls, entered, regather>>

\* ui.ReadUserInput(): "/exit" leaves the loop, anything else is the next question
UserInput ==
    /\ pc = "input"
    /\ \E userInput \in UserInputs :
         /\ entered' = Append(entered, userInput)
         /\ IF IsExit(userInput)
            THEN pc' = "done" /\ UNCHANGED <<messages, stream>>
            ELSE /\ messages' = Append(messages, [Role |-> UserRole, Content |-> userInput])
                 /\ stream' = [stream EXCEPT !.open = FALSE]
                 /\ pc' = "loop"
    /\ UNCHANGED <<opts, env, gather, printed, fileTree, requests, messageStr, retErr>>
    /\ UNCHANGED <<piped, store, calls, regather>>

\* what the gather that returned left behind
LeftBy(g) ==
    [EmptyWalk EXCEPT !.files = g.gfFiles, !.origin = g.origin,
                      !.nodes = IF g.nodes = <<>> THEN <<RootNode>> ELSE g.nodes,
                      !.enumerated = g.enumerated, !.loaded = g.loaded]

\* filetree.GatherFiles is called once more, with the FileGatherOptions (matcher
\* instances and scan roots) of the first call, the file system unchanged
GatherAgain ==
    /\ pc = "gathered"
    /\ gather.called
    /\ ~regather.called
    /\ \E partial \in BOOLEAN :
         \E ret \in {GatherReturn(GatherFilesFrom(LeftBy(gather),
                                    [IncludeMatcher |-> gather.include,
                                     ExcludeMatcher |-> gather.exclude,
                                     PathScopes |-> gather.scopes,
                                     unreadable |-> env.unreadable,
                                     nilDeref |-> gather.nilDeref],
                                    partial))} :
             regather' =
                [called |-> TRUE, files |-> ret.files, nodes |-> ret.nodes,
                 err |-> ret.err,
                 tree |-> IF ret.nodes = <<>> THEN <<>>
                          ELSE GenerateFileTree(ret.nodes, 1, <<>>, TRUE),
                 exclude |-> gather.exclude, include |-> gather.include]
    /\ UNCHANGED <<opts, env, pc, gather, printed, fileTree, messages, requests, stream,
                   messageStr, retErr, piped, store, calls, entered>>

\* what is piped into the command
StdinData == <<"diff --git a b\n">>

\* createSystemMessageFromContext(context)
createSystemMessageFromContext(context) ==
    <<"You are a helpful coding assistant. ">>
    \o <<"Below you will find relevant context to answer the user's question.\n\n">>
    \o <<"Context:\n">> \o context \o <<"\n\n">>
    \o <<"Please follow the users instructions, you can do this!">>

\* nonInteractive(prompt) up to its first Recv: read stdin, read the
\* configuration, open the one completion stream and defer its Close
NonInteractiveOpen ==
    /\ pc = "nonInteractive"
    /\ \E readOk \in BOOLEAN, f \in LoadFailures, ok \in BOOLEAN :
         LET cfg  == NewFromConfigFile(store, f)
             msgs == <<[Role |-> SystemRole,
                        Content |-> createSystemMessageFromContext(StdinData)],
                       [Role |-> UserRole, Content |-> opts.args[1]]>>
         IN  IF ~readOk
             THEN /\ calls' = calls \cup {"ReadAll"}
                  /\ retErr' = "error reading from stdin"
                  /\ pc' = "done"
                  /\ UNCHANGED <<store, messages, requests, stream>>
             ELSE IF cfg.err # ""
             THEN /\ calls' = calls \cup {"ReadAll", "NewFromConfigFile"}
                  /\ store' = cfg.store
                  /\ retErr' = "error reading config"
                  /\ pc' = "done"
                  /\ UNCHANGED <<messages, requests, stream>>
             ELSE /\ calls' = calls \cup {"ReadAll", "NewFromConfigFile",
                                          "CreateChatCompletionStream"}
                  /\ store' = cfg.store
                  /\ messages' = msgs
                  /\ requests' = Append(requests, msgs)
                  /\ IF ok
                     THEN /\ stream' = [open |-> TRUE, recvs |-> 0]
                          /\ pc' = "nrecv"
                          /\ retErr' = retErr
                     ELSE /\ stream' = stream
                          /\ pc' = "done"
                          /\ retErr' = "error creating chat completion stream"
    /\ UNCHANGED <<opts, env, gather, printed, fileTree, messageStr>>
    /\ UNCHANGED <<piped, entered, regather>>

\* nonInteractive: stream.Recv() delivers a delta, which is printed
NonInteractiveDelta ==
    /\ pc = "nrecv"
    /\ stream.recvs < MaxDeltas
    /\ \E d \in Deltas : printed' = Append(printed, Info(d))
    /\ stream' = [stream EXCEPT !.recvs = @ + 1]
    /\ UNCHANGED <<opts, env, pc, gather, fileTree, messages, requests, messageStr,
                   retErr>>
    /\ UNCHANGED <<piped, store, calls, entered, regather>>

\* nonInteractive: stream.Recv() delivers a response without choices
NonInteractiveNoChoices ==
    /\ pc = "nrecv"
    /\ stream.recvs < MaxDeltas
    /\ stream' = [stream EXCEPT !.recvs = @ + 1]
    /\ UNCHANGED <<opts, env, pc, gather, printed, fileTree, messages, requests,
                   messageStr, retErr>>
    /\ UNCHANGED <<piped, store, calls, entered, regather>>

\* nonInteractive: stream.Recv() fails or returns io.EOF; the function returns
\* and the deferred stream.Close() runs
NonInteractiveReturn ==
    /\ pc = "nrecv"
    /\ \E eof \in BOOLEAN : retErr' = IF eof THEN retErr ELSE "error reading response"
    /\ stream' = [stream EXCEPT !.open = FALSE]
    /\ pc' = "done"
    /\ UNCHANGED <<opts, env, gather, printed, fileTree, messages, requests, messageStr>>
    /\ UNCHANGED <<piped, store, calls, entered, regather>>

\* config.SaveConfig(config) is called
CallSaveConfig ==
    /\ pc = "config"
    /\ \E config \in Configs, fail \in SaveFailures : store' = SaveConfig(config, store, fail)
    /\ UNCHANGED <<opts, env, pc, gather, printed, fileTree, messages, requests, stream,
                   messageStr, retErr, piped, calls, entered, regather>>

\* config.LoadConfig() is called
CallLoadConfig ==
    /\ pc = "config"
    /\ \E fail \in LoadFailures : store' = LoadConfig(store, fail)
    /\ UNCHANGED <<opts, env, pc, gather, printed, fileTree, messages, requests, stream,
                   messageStr, retErr, piped, calls, entered, regather>>

\* config.ClearConfig() is called
CallClearConfig ==
    /\ pc = "config"
    /\ \E fail \in ClearFailures : store' = ClearConfig(store, fail)
    /\ UNCHANGED <<opts, env, pc, gather, printed, fileTree, messages, requests, stream,
                   messageStr, retErr, piped, calls, entered, regather>>

\* the package on a machine nobody has logged in on
InitConfig ==
    /\ opts \in FewOpts
    /\ env \in FewEnvs
    /\ opts.args = <<>> /\ opts.excludeFlag = P_vendorSlash /\ Len(opts.pathsFlag) = 1
    /\ piped = FALSE
    /\ store = FreshStore
    /\ pc = "config"
    /\ gather = NotGathered
    /\ printed = <<>>
    /\ fileTree = <<>>
    /\ messages = <<>>
    /\ requests = <<>>
    /\ stream = NoStream
    /\ messageStr = <<>>
    /\ retErr = ""
    /\ calls = {}
    /\ entered = <<>>
    /\ regather = NotRegathered

ConfigNext ==
    \/ CallSaveConfig
    \/ CallLoadConfig
    \/ CallClearConfig

\* gathering, the confirmation and the first request
GatherNext ==
    \/ GatherContext
    \/ ReturnGatherError
    \/ NoFiles
    \/ ConfirmFiles
    \/ StartChat
    \/ OpenStream

Next ==
    \/ RunE
    \/ LoadConfiguration
    \/ NonInteractiveOpen
    \/ NonInteractiveDelta
    \/ NonInteractiveNoChoices
    \/ NonInteractiveReturn
    \/ GatherNext
    \/ RecvDelta
    \/ RecvNoChoices
    \/ RecvError
    \/ RecvEOF
    \/ UserInput

\* the whole command on a few invocations
Spec == Init /\ [][Next]_vars

\* every invocation, up to the first request
SpecGather == InitGather /\ [][GatherNext]_vars

\* a gather and a second one after it
RegatherNext ==
    \/ GatherContext
    \/ GatherAgain

\* every invocation, gathered twice
SpecRegather == InitGather /\ [][RegatherNext]_vars

\* every sequence of calls of the config package
SpecConfig == InitConfig /\ [][ConfigNext]_vars

-----------------------------------------------------------------------------
(* What the properties below speak of *)

\* path p lies strictly below directory d
Below(d, p) == Len(p) > Len(d) /\ SubSeq(p, 1, Len(d)) = d

\* the path of p relative to d
RelTo(d, p) == SubSeq(p, Len(d) + 1, Len(p))

\* every file and directory of the file system, but its top
Entries == (DOMAIN FSDirs \cup DOMAIN FSFiles) \ {<<>>}

\* the entries below the k-th scan root, and their paths relative to it
ScopeEntries(k) == {p \in Entries : Below(ScopeDir(gather.scopes[k]), p)}
Rel(k, p) == RelTo(ScopeDir(gather.scopes[k]), p)

\* every relative path the scan roots of the call give rise to
AllRelPaths ==
    UNION {{JoinSlash(Rel(k, p)) : p \in ScopeEntries(k)} : k \in 1..Len(gather.scopes)}

\* the exclude matcher gatherContext built matches this relative path
ExcludedPath(rel) ==
    CompoundMatches(gather.exclude, JoinSlash(rel), gather.nilDeref) = "true"

\* the path or one of its ancestors below the scan root is excluded
Pruned(rel) == \E n \in 1..Len(rel) : ExcludedPath(SubSeq(rel, 1, n))

\* the include matcher gatherContext built matches this relative path
IncludedPath(rel) == Matches(gather.include, JoinSlash(rel))

RECURSIVE NodeRel(_, _)
\* the names from the root node down to node i
NodeRel(nodes, i) ==
    IF nodes[i].parent = 0 THEN <<>>
    ELSE Append(NodeRel(nodes, nodes[i].parent), nodes[i].name)

TreeRels == {NodeRel(gather.nodes, i) : i \in 2..Len(gather.nodes)}

\* the leaves (directories) of the returned tree found by following rel from the root
LeavesAt(rel) ==
    {i \in 2..Len(gather.nodes) :
        ~gather.nodes[i].isDir /\ NodeRel(gather.nodes, i) = rel}
DirNodesAt(rel) ==
    {i \in 2..Len(gather.nodes) :
        gather.nodes[i].isDir /\ NodeRel(gather.nodes, i) = rel}

At(k, p) == [scope |-> k, abs |-> p]

\* the flat list holds entry p of the k-th scan root
Selected(k, p) == At(k, p) \in Range(gather.origin)

\* gatherContext has just returned from a call of GatherFiles
Returned == pc = "gathered" /\ gather.called

\* gatherContext has just returned a file list and a tree
Succeeded == Returned /\ gather.err = ""

Scopes == 1..Len(gather.scopes)

-----------------------------------------------------------------------------
(* C1..C10 *)

\* C1 (pruning): a directory D whose relative path the exclude matcher matches
\* is not in the tree and is never read, and nothing below D is in the flat
\* list or in the tree or is read, whatever the matchers say of its own path.
C1_Pruning ==
    Returned =>
        \A k \in Scopes : \A D \in ScopeEntries(k) :
            (IsDirPath(D) /\ ExcludedPath(Rel(k, D))) =>
                /\ At(k, D) \notin Range(gather.enumerated)
                /\ Rel(k, D) \notin TreeRels
                /\ \A E \in ScopeEntries(k) :
                      Below(D, E) =>
                          /\ ~Selected(k, E)
                          /\ Rel(k, E) \notin TreeRels
                          /\ At(k, E) \notin Range(gather.enumerated)
                          /\ At(k, E) \notin Range(gather.loaded)

\* a gather that returned files and skipped a directory holding a file that
\* the include matcher matches and the exclude matcher does not
C1_Witness ==
    /\ Succeeded
    /\ gather.files # <<>>
    /\ \E k \in Scopes : \E D, E \in ScopeEntries(k) :
          /\ IsDirPath(D) /\ ExcludedPath(Rel(k, D))
          /\ Below(D, E) /\ ~IsDirPath(E)
          /\ ~ExcludedPath(Rel(k, E)) /\ IncludedPath(Rel(k, E))

\* C2 (selection rule): after a successful gather a file of a scan root is in
\* the flat list, once, with its relative path, type and content, iff neither
\* it nor an ancestor is excluded and the include matcher matches it; a file
\* that is not excluded and not included is a leaf of the tree and is not read.
C2_SelectionRule ==
    Succeeded =>
        /\ Len(gather.files) = Len(gather.origin)
        /\ \A i \in 1..Len(gather.origin) :
              LET at == gather.origin[i] IN
                /\ at.scope \in Scopes
                /\ at.abs \in ScopeEntries(at.scope) \cap DOMAIN FSFiles
                /\ gather.files[i].Path = JoinSlash(Rel(at.scope, at.abs))
                /\ gather.files[i].Data = FSFiles[at.abs]
                /\ \A j \in 1..Len(gather.origin) : gather.origin[j] = at => j = i
        /\ \A k \in Scopes : \A E \in ScopeEntries(k) \cap DOMAIN FSFiles :
              /\ Selected(k, E) <=> (~Pruned(Rel(k, E)) /\ IncludedPath(Rel(k, E)))
              /\ Selected(k, E) <=> At(k, E) \in Range(gather.loaded)
              /\ (~Pruned(Rel(k, E)) /\ ~IncludedPath(Rel(k, E))) =>
                    LeavesAt(Rel(k, E)) # {}

\* a successful gather with a selected file, a file under an excluded directory
\* that the include matcher matches, and a file kept in the tree only
C2_Witness ==
    /\ Succeeded
    /\ \E k \in Scopes : \E E1, E2, E3 \in ScopeEntries(k) \cap DOMAIN FSFiles :
          /\ Selected(k, E1)
          /\ Pruned(Rel(k, E2)) /\ ~ExcludedPath(Rel(k, E2)) /\ IncludedPath(Rel(k, E2))
          /\ ~Pruned(Rel(k, E3)) /\ ~IncludedPath(Rel(k, E3))

Perms(n) == {f \in [1..n -> 1..n] : \A i, j \in 1..n : f[i] = f[j] => i = j}
Permuted(seq, f) == [i \in 1..Len(seq) |-> seq[f[i]]]

\* some constructed child of the exclude matcher matches the path
AnyChildMatches(path) ==
    \E i \in 1..Len(gather.exclude) :
        gather.exclude[i].kind # "nil" /\ Matches(gather.exclude[i], path)

\* C4 (compound matcher is an OR): in whatever order the children that
\* gatherContext collected are given, whenever the compound matcher answers for
\* a path, it answers true iff some child matches the path; and with no
\* --exclude pattern and both exclusions switched off it matches no path.
C4_CompoundIsOr ==
    Returned =>
        /\ \A f \in Perms(Len(gather.exclude)) : \A path \in AllRelPaths :
              LET r == CompoundMatches(Permuted(gather.exclude, f), path, gather.nilDeref)
              IN  r # "panic" => ((r = "true") <=> AnyChildMatches(path))
        /\ (/\ opts.excludeFlag = P_empty
            /\ ~opts.excludeFromGitignoreFlag
            /\ ~opts.excludeGitDirFlag) =>
              /\ gather.exclude = <<>>
              /\ \A path \in AllRelPaths :
                    CompoundMatches(gather.exclude, path, gather.nilDeref) = "false"

\* three constructed children and a path that only the last of them matches
C4_Witness ==
    /\ Returned
    /\ Len(gather.exclude) = 3
    /\ \A i \in 1..3 : gather.exclude[i].kind # "nil"
    /\ \E path \in AllRelPaths :
          /\ ~Matches(gather.exclude[1], path)
          /\ ~Matches(gather.exclude[2], path)
          /\ Matches(gather.exclude[3], path)
          /\ CompoundMatches(gather.exclude, path, gather.nilDeref) = "true"

\* C5 (git absent): when --exclude-from-gitignore is set and git is not
\* installed (and nothing else fails), gatherContext warns, the exclude matcher
\* handed to GatherFiles holds only matchers that were constructed, and the
\* gather completes.
C5_OnlyConstructedMatchers ==
    (/\ pc # "gather"
     /\ opts.excludeFromGitignoreFlag
     /\ env.git = "missing"
     /\ (opts.excludeFlag = P_empty \/ Compile(opts.excludeFlag).ok)
     /\ Compile(opts.includeFlag).ok) =>
        /\ gather.called
        /\ GitWarning \in Range(printed)
        /\ \A i \in 1..Len(gather.exclude) : gather.exclude[i].kind # "nil"
        /\ ~gather.panic

\* a matcher the invocation asks for cannot be constructed (git missing aside)
ConstructionFails ==
    \/ (opts.excludeFlag # P_empty /\ ~Compile(opts.excludeFlag).ok)
    \/ (opts.excludeFromGitignoreFlag /\ env.git = "broken")
    \/ (opts.excludeGitDirFlag /\ ~Compile(P_gitDir).ok)
    \/ ~Compile(opts.includeFlag).ok

\* C6 (fatal construction failures): if the exclude, .git or include pattern
\* does not compile, or the gitignore matcher fails for another reason than a
\* missing git, gatherContext returns (nil, nil, error) without calling
\* GatherFiles, nothing is read, and interactiveChat returns that error.
C6_ConstructionFailureIsFatal ==
    (pc # "gather" /\ ConstructionFails) =>
        /\ gather.err # ""
        /\ gather.files = <<>> /\ gather.nodes = <<>>
        /\ ~gather.called
        /\ gather.enumerated = <<>> /\ gather.loaded = <<>>
        /\ pc \in {"gathered", "done"}
        /\ (pc = "done" => retErr = gather.err)

\* interactiveChat has returned the error of a gitignore matcher that failed
\* with git installed, the patterns being fine
C6_Witness ==
    /\ pc = "done" /\ retErr = "error creating gitignore matcher"
    /\ env.git = "broken"
    /\ Compile(opts.includeFlag).ok
    /\ opts.excludeFlag # P_empty /\ Compile(opts.excludeFlag).ok

\* the confirmation display of interactiveChat has been printed
TreeShown ==
    \E i \in 1..Len(printed) :
        printed[i].text = <<"The following files will be used as context:\n">>

\* C7 (no partial results): gatherContext never returns files or a tree beside
\* an error; when a directory or file read fails during the walk, whatever had
\* been selected, it returns the error alone, and interactiveChat returns it
\* without showing a tree or issuing a request.
C7_NoPartialResults ==
    /\ (gather.err # "" => gather.files = <<>> /\ gather.nodes = <<>>)
    /\ (gather.gfErr # "" =>
          /\ gather.err = "error gathering files"
          /\ pc \in {"gathered", "done"}
          /\ fileTree = <<>> /\ ~TreeShown
          /\ requests = <<>> /\ messages = <<>>
          /\ (pc = "done" => retErr = gather.err))

\* a read failed after files had been selected, and interactiveChat has returned
C7_Witness ==
    /\ pc = "done"
    /\ gather.gfErr # "" /\ gather.gfFiles # <<>>
    /\ retErr = "error gathering files"
    /\ Len(gather.scopes) > 1

\* C8 as the spec states it (display only): the rendered tree is in no
\* message of any request.
C8_TreeDisplayOnly ==
    \A i \in 1..Len(requests) : \A j \in 1..Len(requests[i]) :
        ~IsSubstring(fileTree, requests[i][j].Content)

\* C8 as amended (displayed and sent): the rendered tree is the rendering of
\* the returned tree, it is shown for confirmation before any request, and the
\* system message of every request carries it, fenced, under "## File tree"
\* and before "## File contents"; no other message carries it.
C8_TreeShownAndSent ==
    \A i \in 1..Len(requests) :
        /\ fileTree = GenerateFileTree(gather.nodes, 1, <<>>, TRUE)
        /\ Info(fileTree) \in Range(printed)
        /\ requests[i][1].Role = SystemRole
        /\ IsSubstring(<<"## File tree\n\n", "'''\n">> \o fileTree
                          \o <<"'''\n\n", "## File contents\n\n">>,
                       requests[i][1].Content)
        /\ \A j \in 2..Len(requests[i]) : ~IsSubstring(fileTree, requests[i][j].Content)

\* a request has been issued for a tree of several lines
C8_Witness ==
    /\ Len(requests) > 0
    /\ Len(gather.nodes) > 3

\* no file below directory D of the k-th scan root qualifies for selection
NothingToSelect(k, D) ==
    \A E \in ScopeEntries(k) \cap DOMAIN FSFiles :
        Below(D, E) => (Pruned(Rel(k, E)) \/ ~IncludedPath(Rel(k, E)))

\* C9 (structural retention): after a successful gather every directory that
\* is not excluded and has no excluded ancestor is an internal node of the
\* tree, is not itself an entry of the flat list and, when nothing below it
\* qualifies (or it is empty), has no entry of the flat list below it.
C9_StructuralRetention ==
    Succeeded =>
        \A k \in Scopes : \A D \in ScopeEntries(k) :
            (IsDirPath(D) /\ ~Pruned(Rel(k, D))) =>
                /\ DirNodesAt(Rel(k, D)) # {}
                /\ ~Selected(k, D)
                /\ \A i \in 1..Len(gather.files) :
                      gather.files[i].Path # JoinSlash(Rel(k, D))
                /\ NothingToSelect(k, D) =>
                      \A E \in ScopeEntries(k) : Below(D, E) => ~Selected(k, E)

\* files were selected, and the tree keeps an empty directory and a directory
\* all of whose files are excluded
C9_Witness ==
    /\ Succeeded
    /\ gather.files # <<>>
    /\ \E k \in Scopes : \E D1, D2 \in ScopeEntries(k) :
          /\ IsDirPath(D1) /\ FSDirs[D1] = <<>> /\ DirNodesAt(Rel(k, D1)) # {}
          /\ IsDirPath(D2) /\ FSDirs[D2] # <<>> /\ DirNodesAt(Rel(k, D2)) # {}
          /\ NothingToSelect(k, D2)
          /\ \A n \in DirNodesAt(Rel(k, D2)) : ChildrenOf(gather.nodes, n) = <<>>

\* the scenario: --include '.*\.go$' --exclude 'vendor/' --paths ./cmd,./pkg
Scenario10 ==
    /\ opts.includeFlag = P_go
    /\ opts.excludeFlag = P_vendorSlash
    /\ opts.pathsFlag = <<Scope_cmd, Scope_pkg>>
    /\ Succeeded

MainGoSelected ==
    \E i \in 1..Len(gather.files) :
        /\ gather.origin[i] = At(1, <<S_cmd, S_main>>)
        /\ gather.files[i].Path = S_main
        /\ gather.files[i].Type = <<"g", "o">>

DepGoAbsent ==
    /\ \A i \in 1..Len(gather.files) :
          /\ gather.origin[i].abs # <<S_pkg, S_vendor, S_dep>>
          /\ gather.files[i].Path # JoinSlash(<<S_vendor, S_dep>>)
    /\ <<S_vendor, S_dep>> \notin TreeRels

Alone(k) ==
    GatherFiles([IncludeMatcher |-> gather.include,
                 ExcludeMatcher |-> gather.exclude,
                 PathScopes |-> <<gather.scopes[k]>>,
                 unreadable |-> env.unreadable,
                 nilDeref |-> gather.nilDeref], FALSE)

\* how often the flat list holds entry abs of the file system
Copies(abs) == Cardinality({i \in 1..Len(gather.origin) : gather.origin[i].abs = abs})

\* every scan root of the call gathered alone
EachAlone == [k \in Scopes |-> Alone(k)]

\* the scan roots that select entry abs when gathered alone
RootsSelecting(alone, abs) ==
    {k \in DOMAIN alone : \E j \in 1..Len(alone[k].origin) : alone[k].origin[j].abs = abs}

\* C11 (multiple scan roots): after a successful gather over the roots
\* r1..rn every root gathered alone with the same matchers succeeds, the flat
\* list is the concatenation, in scope order, of the lists the roots yield
\* alone, and a file is in it once for every root that selects it.
C11_RootsConcatenated ==
    Succeeded =>
        LET alone == EachAlone IN
          /\ \A k \in Scopes : alone[k].err = "" /\ ~alone[k].panic
          /\ gather.files = Flatten([k \in Scopes |-> alone[k].files])
          /\ \A abs \in DOMAIN FSFiles :
                Copies(abs) = Cardinality(RootsSelecting(alone, abs))

\* two different roots, one inside the other, that both select the same file
C11_Witness ==
    /\ Succeeded
    /\ Len(gather.scopes) = 2
    /\ gather.scopes[1] # gather.scopes[2]
    /\ LET alone == EachAlone IN
         /\ \E abs \in DOMAIN FSFiles :
               Copies(abs) = 2 /\ RootsSelecting(alone, abs) = {1, 2}
         /\ alone[1].files # alone[2].files

C13_CredentialConfinement ==
    /\ \A k \in Keys : k \notin Range(store.file.data)
    /\ "\"apiKey\":" \notin Range(store.file.data)
    /\ store.file.exists =>
          \E c \in Configs :
              /\ ValidateConfig(c) = <<>>
              /\ \A k \in Keys \cup {""} :
                    store.file.data = Marshal([c EXCEPT !.apiKey = k])
    /\ (store.last.op = "SaveConfig" /\ store.last.wrote) =>
          /\ store.last.stored
          /\ store.keyring.set /\ store.keyring.key \in Keys
    /\ (store.last.op = "SaveConfig" /\ ~store.last.stored) => ~store.last.wrote

\* a configuration saved with the second key under the azure provider, and
\* loaded back with its key
C13_Witness ==
    /\ store.file.exists
    /\ store.last.op = "LoadConfig" /\ store.last.err = ""
    /\ store.Cfg.apiKey = "sk-2"
    /\ store.keyring.key = "sk-2"
    /\ store.Cfg.Provider = "azure"

\* C14 (piped input requires a prompt): with stdin piped and no prompt the
\* root command returns NoPromptProvidedError and has called nothing: the
\* configuration is not read, nothing is gathered, no stream is opened. With
\* stdin piped and a prompt nonInteractive runs: stdin is read, the request
\* carries the piped text and the prompt, and the gatherer is never called.
C14_PipedNeedsPrompt ==
    /\ (piped /\ opts.args = <<>> /\ pc # "start") =>
          /\ pc = "done"
          /\ retErr = "NoPromptProvidedError"
          /\ calls = {}
          /\ store \in FewStores
          /\ gather = NotGathered
          /\ requests = <<>> /\ ~stream.open
    /\ (piped /\ opts.args # <<>> /\ pc # "start") =>
          /\ pc \in {"nonInteractive", "nrecv", "done"}
          /\ calls \cap {"gatherContext", "GatherFiles"} = {}
          /\ gather = NotGathered
          /\ pc # "nonInteractive" => "ReadAll" \in calls
          /\ \A i \in 1..Len(requests) :
                /\ requests[i][1].Role = SystemRole
                /\ IsSubstring(StdinData, requests[i][1].Content)
                /\ requests[i][2] = [Role |-> UserRole, Content |-> opts.args[1]]

\* the command has returned for want of a prompt, on a machine where a
\* configuration is stored
C14_Witness ==
    /\ piped /\ opts.args = <<>>
    /\ pc = "done" /\ retErr = "NoPromptProvidedError"
    /\ store = SignedInStore

\* a system message, then user and assistant messages in turn, ending with a
\* user message
HistoryShape(msgs) ==
    /\ Len(msgs) >= 2 /\ Len(msgs) % 2 = 0
    /\ msgs[1].Role = SystemRole
    /\ \A j \in 2..Len(msgs) :
          msgs[j].Role = IF j % 2 = 0 THEN UserRole ELSE AssistantRole

\* list b is list a with n messages appended
Extends(b, a, n) == Len(b) = Len(a) + n /\ SubSeq(b, 1, Len(a)) = a

\* the messages of the first request: the system message and the first question
FirstHistory(msgs) ==
    /\ Len(msgs) = 2
    /\ msgs[1] = [Role |-> SystemRole, Content |-> SystemMessage(fileTree, gather.files)]
    /\ msgs[2].Content = IF opts.args # <<>> THEN opts.args[1] ELSE entered[1]

\* C15 (conversation history shape): in interactiveChat every request carries
\* one system message followed by user and assistant messages in turn, from
\* the first question to a last one; from one request to the next the history
\* grows by one assistant message and one user message, and since the last
\* request by one assistant message and then at most one user message; once
\* "/exit" is entered, also as the first message, the function is done and
\* every request made was for a message entered before it.
C15_HistoryShape ==
    ~piped =>
        /\ \A i \in 1..Len(requests) : HistoryShape(requests[i])
        /\ requests # <<>> => FirstHistory(requests[1])
        /\ \A i \in 1..(Len(requests) - 1) : Extends(requests[i + 1], requests[i], 2)
        /\ requests # <<>> =>
              LET last == requests[Len(requests)] IN
                \/ messages = last
                \/ /\ Extends(messages, last, 1)
                   /\ messages[Len(messages)].Role = AssistantRole
                \/ /\ Extends(messages, last, 2)
                   /\ HistoryShape(messages)
        /\ opts.args = <<Exit>> => requests = <<>> /\ messages = <<>>
        /\ Exit \in Range(entered) =>
              /\ pc = "done"
              /\ \A i \in 1..(Len(entered) - 1) : entered[i] # Exit
              /\ Len(requests) = Len(entered) - 1 + Len(opts.args)
              /\ \A i \in 1..Len(requests) : \A j \in 1..Len(requests[i]) :
                    requests[i][j].Content # Exit

\* two requests were made and then "/exit" was entered
C15_Witness ==
    /\ ~piped
    /\ Len(requests) = 2
    /\ Len(requests[2]) = 4
    /\ Exit \in Range(entered)
    /\ pc = "done"

\* the text printed for the answer that has just ended: what was printed after
\* the last "bot: " and before the prompt for the next question
TurnPrinted ==
    LET bots == {i \in 1..Len(printed) : printed[i] = Info(<<"bot: ">>)}
        b    == CHOOSE i \in bots : \A j \in bots : j <= i
    IN  Flatten([i \in 1..(Len(printed) - b - 1) |-> printed[b + i].text])

\* C16 (assistant turn fidelity): when a response stream of interactiveChat
\* has ended with EOF, the assistant message appended to the history has as
\* content the concatenation of the deltas of the turn, the text printed for it.
C16_AssistantTurnFidelity ==
    (~piped /\ pc = "input") =>
        messages[Len(messages)] = [Role |-> AssistantRole, Content |-> TurnPrinted]

\* C17 (stream lifecycle): a stream that was opened is closed when the function
\* that opened it has returned, on every exit path of interactiveChat and of
\* nonInteractive, and when the next request is about to be made.
C17_StreamsClosed ==
    pc \in {"done", "loop"} => ~stream.open

====
